---- MODULE Spec2Model ----
(***************************************************************************)
(* sms-forward: extraction of a verification code from SMS text and the    *)
(* two-key (historic + latest) cache protocol on Redis (src/main.go).      *)
(*                                                                         *)
(* A text is a sequence of one-character strings.  The anchor phrase of    *)
(* reCodeSpecific (three CJK characters) is written "Y","Z","M"; "x" is    *)
(* any other non-digit character.                                          *)
(***************************************************************************)
EXTENDS Integers, Sequences, FiniteSets, Bags, TLC

\* ---------------------------------------------------------------- bounds
MaxPieces == 4      \* pieces a generated text is built from
MaxReq    == 2      \* receive_sms requests served in one behaviour
MaxClock  == 2      \* minutes the clock may advance

\* ------------------------------------------------------- program constants
TTL    == 2         \* 2*time.Minute, the expiry of both keys
MinLen == 4         \* lower repetition bound of [0-9]{4,8}
MaxLen == 8         \* upper repetition bound of [0-9]{4,8}

\* --------------------------------------------------------------- alphabet
Digits == {"1", "2"}
Anchor == <<"Y", "Z", "M">>

VARIABLES text, built, phase, result, rdb, now, reqs, served, last, proc

vars == <<text, built, phase, result, rdb, now, reqs, served, last, proc>>

\* ================================================================ regexps
Max(S) == CHOOSE m \in S : \A n \in S : n <= m
Min(S) == CHOOSE m \in S : \A n \in S : m <= n

\* [0-9]
IsDigit(c) == c \in Digits

\* the characters t[a..b] are all digits / all non-digits
AllDigits(t, a, b)    == \A p \in a..b : IsDigit(t[p])
AllNonDigits(t, a, b) == \A p \in a..b : ~IsDigit(t[p])

\* the literal prefix of reCodeSpecific occurs at position i
AnchorAt(t, i) ==
    /\ i >= 1
    /\ i + Len(Anchor) - 1 <= Len(t)
    /\ \A p \in 1..Len(Anchor) : t[i + p - 1] = Anchor[p]

\* Ways reCodeSpecific can match with its literal at i: <<j, k>> where the
\* [^0-9]* part is t[i+3..j-1] and the group ([0-9]{4,8}) is t[j..j+k-1].
SpecificMatchesAt(t, i) ==
    IF ~AnchorAt(t, i) THEN {}
    ELSE { jk \in ((i + Len(Anchor))..(Len(t) + 1)) \X (MinLen..MaxLen) :
             /\ AllNonDigits(t, i + Len(Anchor), jk[1] - 1)
             /\ jk[1] + jk[2] - 1 <= Len(t)
             /\ AllDigits(t, jk[1], jk[1] + jk[2] - 1) }

\* The match the engine prefers at i: both repetitions are greedy.
SpecificPreferred(t, i) ==
    LET M  == SpecificMatchesAt(t, i)
        j  == Max({jk[1] : jk \in M})
        k  == Max({jk[2] : jk \in {m \in M : m[1] = j}})
    IN  <<j, k>>

\* reCodeSpecific.FindStringSubmatch(text): leftmost match; <<whole, group>>
\* or the empty slice when nothing matches.
FindStringSubmatch(t) ==
    LET starts == {i \in 1..Len(t) : SpecificMatchesAt(t, i) # {}}
    IN  IF starts = {} THEN <<>>
        ELSE LET i  == Min(starts)
                 jk == SpecificPreferred(t, i)
             IN  << SubSeq(t, i, jk[1] + jk[2] - 1),
                    SubSeq(t, jk[1], jk[1] + jk[2] - 1) >>

\* Length reCodeFallback matches at position i (greedy {4,8}), 0 if none.
FallbackLenAt(t, i) ==
    LET ks == {k \in MinLen..MaxLen :
                 i + k - 1 <= Len(t) /\ AllDigits(t, i, i + k - 1)}
    IN  IF ks = {} THEN 0 ELSE Max(ks)

\* reCodeFallback.FindAllString(text, -1) scanning from position p:
\* successive leftmost non-overlapping matches.
RECURSIVE FindAllFrom(_, _)
FindAllFrom(t, p) ==
    LET starts == {i \in p..Len(t) : FallbackLenAt(t, i) > 0}
    IN  IF starts = {} THEN <<>>
        ELSE LET i == Min(starts)
                 k == FallbackLenAt(t, i)
             IN  <<SubSeq(t, i, i + k - 1)>> \o FindAllFrom(t, i + k)

FindAllString(t) == FindAllFrom(t, 1)

\* extractCode without the anchored tier (fallback only)
extractCodeFallbackOnly(t) ==
    LET nums == FindAllString(t) IN
    IF Len(nums) > 0 THEN nums[Len(nums)] ELSE <<>>

\* extractCode: anchored tier first, then the last fallback match, else "".
extractCode(t) ==
    LET m == FindStringSubmatch(t) IN
    IF Len(m) = 2 THEN m[2]
    ELSE LET nums == FindAllString(t) IN
         IF Len(nums) > 0 THEN nums[Len(nums)] ELSE <<>>

\* ====================================================== extractor harness
Rep(c, n) == [p \in 1..n |-> c]

RunLens == {3, 4, 5, 9}

Pieces == {Anchor, <<"x">>} \cup {Rep(d, n) : d \in Digits, n \in RunLens}

InitExtract ==
    /\ text = <<>>
    /\ built = 0
    /\ phase = "build"
    /\ result = <<>>
    /\ rdb = <<>>
    /\ now = 0
    /\ reqs = EmptyBag
    /\ served = 0
    /\ last = <<>>
    /\ proc = "starting"

\* the text grows by one piece
AppendPiece ==
    /\ phase = "build"
    /\ built < MaxPieces
    /\ built' = built + 1
    /\ \E pc \in Pieces : text' = text \o pc
    /\ UNCHANGED <<phase, result, rdb, now, reqs, served, last, proc>>

\* extractCode is applied to the text
Extract ==
    /\ phase = "build"
    /\ phase' = "done"
    /\ result' = extractCode(text)
    /\ UNCHANGED <<text, built, rdb, now, reqs, served, last, proc>>

NextExtract == AppendPiece \/ Extract

SpecExtract == InitExtract /\ [][NextExtract]_vars

\* ================================================== records and the store
Senders  == {"A", "B"}
Times    == {0, 1, 2}          \* received_at values; 0 is the zero value
ContentAnchored == Anchor \o <<"1", "1", "1", "1">> \o <<"x">> \o <<"2", "2", "2", "2", "2">>
ContentPlain    == <<"x", "2", "2", "2", "2">>
ContentNoCode   == <<"x", "1", "1", "1">>
Contents == {ContentAnchored, ContentPlain, ContentNoCode}

\* the request bodies of the model: every body of sender "A", one of "B"
Messages ==
    {m \in Senders \X Contents \X Times :
        m[1] = "A" \/ (m[2] = ContentPlain /\ m[3] = 1)}

\* extractCode over the message contents of the model, evaluated once
CodeOf == [c \in Contents |-> extractCode(c)]

\* type SMS struct
SMS(from, content, at) == [From |-> from, Content |-> content, ReceivedAt |-> at]

\* json.Marshal(sms) with ReceivedAt written as a JSON number
MarshalPlainInt(sms) ==
    [ from        |-> <<"string", sms.From>>,
      content     |-> <<"string", sms.Content>>,
      received_at |-> <<"number", sms.ReceivedAt>> ]

\* json.Marshal(sms): the tags name the fields; ",string" quotes ReceivedAt
Marshal(sms) ==
    [ from        |-> <<"string", sms.From>>,
      content     |-> <<"string", sms.Content>>,
      received_at |-> <<"string", sms.ReceivedAt>> ]

\* json.Unmarshal(data, &sms): every field must arrive as a JSON string
Unmarshal(data) ==
    IF /\ DOMAIN data = {"from", "content", "received_at"}
       /\ data.from[1] = "string"
       /\ data.content[1] = "string"
       /\ data.received_at[1] = "string"
    THEN [err |-> FALSE,
          sms |-> SMS(data.from[2], data.content[2], data.received_at[2])]
    ELSE [err |-> TRUE, sms |-> SMS("", <<>>, 0)]

\* a historic key built from the server's clock instead of received_at
KeyHistoricServerTime(from, at) == <<"sms", from, now>>

\* fmt.Sprintf("sms:%s:%d", from, at)
KeyHistoric(from, at) == <<"sms", from, at>>

\* a latest key that leaves the sender out
KeyLatestShared(from) == <<"latest_sms", "">>

\* fmt.Sprintf("latest_sms:%s", from)
KeyLatest(from) == <<"latest_sms", from>>

\* rdb.Set(ctx, key, data, ttl) on store db at time clock; a failed write
\* leaves the store as it was
RedisSet(db, clock, key, data, ttl, fail) ==
    IF fail THEN db
    ELSE [k \in DOMAIN db \cup {key} |->
            IF k = key THEN [val |-> data, exp |-> clock + ttl] ELSE db[k]]

\* rdb.Get(ctx, key).Result(): redis.Nil for an absent or expired key
RedisGet(db, clock, key, fail) ==
    IF fail THEN [err |-> "error", val |-> <<>>]
    ELSE IF key \notin DOMAIN db \/ clock >= db[key].exp
         THEN [err |-> "Nil", val |-> <<>>]
         ELSE [err |-> "nil", val |-> db[key].val]

\* c.JSON(status, gin.H{...})
Response(status, error, data) == [status |-> status, error |-> error, data |-> data]

\* ShouldBindJSON(&sms): the binding:"required" tags reject zero values
BindSMS(from, content, at) == from # "" /\ content # <<>> /\ at # 0

\* the lookup with every GET error answered as "not found"
LookupLatestConflated(db, clock, phone, fail) ==
    LET got == RedisGet(db, clock, KeyLatest(phone), fail) IN
    IF got.err # "nil" THEN Response(404, "NotFound", <<>>)
    ELSE LET dec == Unmarshal(got.val) IN
         IF dec.err THEN Response(500, "CorruptRecord", <<>>)
         ELSE Response(200, "", Marshal(dec.sms))

\* the lookup shared by getLatestSMS and querySMS: GET, then decode
LookupLatest(db, clock, phone, fail) ==
    LET got == RedisGet(db, clock, KeyLatest(phone), fail) IN
    IF got.err = "Nil" THEN Response(404, "NotFound", <<>>)
    ELSE IF got.err # "nil" THEN Response(500, "StoreReadFailed", <<>>)
    ELSE LET dec == Unmarshal(got.val) IN
         IF dec.err THEN Response(500, "CorruptRecord", <<>>)
         ELSE Response(200, "", Marshal(dec.sms))

\* a request (reqs holds those in progress): its input, the handler's position, sms.Content after step 3,
\* the store error the handler met, and its response
Request(kind, from, content, at, code, pc, storeErr, resp) ==
    [ kind |-> kind, from |-> from, content |-> content, at |-> at,
      code |-> code, pc |-> pc, storeErr |-> storeErr, resp |-> resp ]

NoResp == Response(0, "", <<>>)

NoRequest == Request("none", "", <<>>, 0, <<>>, "done", "none", NoResp)

\* the process after a handler answered with a store error, were the
\* handler to call log.Fatalf
procAfterFatal(resp) == IF resp.status = 500 THEN "exited" ELSE "serving"

\* the process after a handler answered: every path of the three handlers
\* ends in c.JSON and return
procAfter(resp) == "serving"

\* step 3 without the overwrite of sms.Content
NormalizeKeepContent(content, code) == content

\* sms.Content = code: only the digits are kept
Normalize(content, code) == code

Init ==
    /\ rdb = <<>>
    /\ now = 0
    /\ reqs = EmptyBag
    /\ served = 0
    /\ last = NoRequest
    /\ proc = "starting"
    /\ text = <<>>
    /\ built = 0
    /\ phase = "idle"
    /\ result = <<>>

\* main: initRedis (log.Fatalf when the ping fails), then r.Run
\* (log.Fatalf when the listener cannot start)
main(pingFail, runFail) ==
    /\ proc = "starting"
    /\ proc' = IF pingFail \/ runFail THEN "exited" ELSE "serving"
    /\ UNCHANGED <<rdb, now, reqs, served, last, text, built, phase, result>>

\* receiveSMS, steps 2-4: how far the handler gets before it answers or
\* waits for the latest SET; the historic error is swallowed here
receiveStageSwallowHistoric(from, content, at, code, fail) ==
    IF ~BindSMS(from, content, at) THEN "bind"
    ELSE IF code = <<>> THEN "nocode"
    ELSE "latest"

\* receiveSMS, steps 2-4, without the check of step 3
receiveStageNoCodeCheck(from, content, at, code, fail) ==
    IF ~BindSMS(from, content, at) THEN "bind"
    ELSE IF fail THEN "historic"
    ELSE "latest"

\* receiveSMS, steps 2-4: the early returns (binding error, no code found,
\* historic SET failed) and the way on to the latest SET
receiveStage(from, content, at, code, fail) ==
    IF ~BindSMS(from, content, at) THEN "bind"
    ELSE IF code = <<>> THEN "nocode"
    ELSE IF fail THEN "historic"
    ELSE "latest"

\* POST /api/receive_sms up to and including the historic SET
receiveSMS(from, content, at, fail) ==
    /\ proc = "serving"
    /\ served < MaxReq
    /\ served' = served + 1
    /\ LET code        == CodeOf[content]
           sms         == SMS(from, Normalize(content, code), at)
           keyHistoric == KeyHistoric(from, at)
           data        == Marshal(sms)
           stage       == receiveStage(from, content, at, code, fail)
           storeErr    == IF fail THEN "historic" ELSE "none"
       IN  CASE stage = "bind" ->
                /\ last' = Request("receive", from, content, at, <<>>, "done",
                                   "none", Response(400, "ParamError", <<>>))
                /\ proc' = procAfter(last'.resp)
                /\ UNCHANGED <<rdb, reqs>>
             [] stage = "nocode" ->
                /\ last' = Request("receive", from, content, at, code, "done",
                                   "none", Response(400, "NoCodeFound", <<>>))
                /\ proc' = procAfter(last'.resp)
                /\ UNCHANGED <<rdb, reqs>>
             [] stage = "historic" ->
                /\ rdb' = RedisSet(rdb, now, keyHistoric, data, TTL, fail)
                /\ last' = Request("receive", from, content, at, code, "done",
                                   storeErr, Response(500, "StoreWriteFailed", <<>>))
                /\ proc' = procAfter(last'.resp)
                /\ UNCHANGED reqs
             [] stage = "latest" ->
                /\ rdb' = RedisSet(rdb, now, keyHistoric, data, TTL, fail)
                /\ reqs' = reqs (+) SetToBag({Request("receive", from, content, at,
                                       sms.Content, "setLatest", storeErr, NoResp)})
                /\ UNCHANGED <<last, proc>>
    /\ UNCHANGED <<now, text, built, phase, result>>

\* step 6 with the latest SET's error checked
receiveResponseChecked(q, fail) ==
    IF fail THEN Response(500, "StoreWriteFailed", <<>>)
    ELSE Response(200, "",
            [ cache_key |-> KeyHistoric(q.from, q.at),
              from      |-> <<"string", q.from>>,
              timestamp |-> <<"number", q.at>>,
              code      |-> <<"string", q.code>> ])

\* receiveSMS, step 6: the answer after the latest SET, whose error was
\* assigned to _
receiveResponse(q, fail) ==
    Response(200, "",
        [ cache_key |-> KeyHistoric(q.from, q.at),
          from      |-> <<"string", q.from>>,
          timestamp |-> <<"number", q.at>>,
          code      |-> <<"string", q.code>> ])

\* receiveSetLatest with a longer expiry on the latest key
receiveSetLatestLongTTL(q, fail) ==
    /\ proc = "serving"
    /\ BagIn(q, reqs)
    /\ q.pc = "setLatest"
    /\ LET sms  == SMS(q.from, q.code, q.at)
           data == Marshal(sms)
       IN  /\ rdb' = RedisSet(rdb, now, KeyLatest(sms.From), data, TTL + 1, fail)
           /\ reqs' = reqs (-) SetToBag({q})
           /\ last' = Request("receive", q.from, q.content, q.at, q.code, "done",
                         IF fail THEN "latest" ELSE q.storeErr,
                         receiveResponse(q, fail))
           /\ proc' = procAfter(last'.resp)
    /\ UNCHANGED <<now, served, text, built, phase, result>>

\* receiveSetLatest that keeps a latest record with a larger received_at
receiveSetLatestMonotonic(q, fail) ==
    /\ proc = "serving"
    /\ BagIn(q, reqs)
    /\ q.pc = "setLatest"
    /\ LET sms  == SMS(q.from, q.code, q.at)
           data == Marshal(sms)
           key  == KeyLatest(sms.From)
           old  == RedisGet(rdb, now, key, FALSE)
           skip == old.err = "nil" /\ old.val.received_at[2] > sms.ReceivedAt
       IN  /\ rdb' = RedisSet(rdb, now, key, data, TTL, fail \/ skip)
           /\ reqs' = reqs (-) SetToBag({q})
           /\ last' = Request("receive", q.from, q.content, q.at, q.code, "done",
                         IF fail THEN "latest" ELSE q.storeErr,
                         receiveResponse(q, fail))
           /\ proc' = procAfter(last'.resp)
    /\ UNCHANGED <<now, served, text, built, phase, result>>

\* receiveSMS from the latest SET to the response
receiveSetLatest(q, fail) ==
    /\ proc = "serving"
    /\ BagIn(q, reqs)
    /\ q.pc = "setLatest"
    /\ LET sms  == SMS(q.from, q.code, q.at)
           data == Marshal(sms)
       IN  /\ rdb' = RedisSet(rdb, now, KeyLatest(sms.From), data, TTL, fail)
           /\ reqs' = reqs (-) SetToBag({q})
           /\ last' = Request("receive", q.from, q.content, q.at, q.code, "done",
                         IF fail THEN "latest" ELSE q.storeErr,
                         receiveResponse(q, fail))
           /\ proc' = procAfter(last'.resp)
    /\ UNCHANGED <<now, served, text, built, phase, result>>

\* GET /api/latest_sms/:phone
getLatestSMS(phone, fail) ==
    /\ proc = "serving"
    /\ LET resp == IF phone = "" THEN Response(400, "EmptyPhone", <<>>)
                   ELSE LookupLatest(rdb, now, phone, fail)
       IN  last' = Request("latest", phone, <<>>, 0, <<>>, "done",
                           IF phone # "" /\ fail THEN "read" ELSE "none", resp)
    /\ proc' = procAfter(last'.resp)
    /\ UNCHANGED <<rdb, now, reqs, served, text, built, phase, result>>

\* POST /api/query_sms
querySMS(phone, fail) ==
    /\ proc = "serving"
    /\ LET resp == IF phone = "" THEN Response(400, "ParamError", <<>>)
                   ELSE LookupLatest(rdb, now, phone, fail)
       IN  last' = Request("query", phone, <<>>, 0, <<>>, "done",
                           IF phone # "" /\ fail THEN "read" ELSE "none", resp)
    /\ proc' = procAfter(last'.resp)
    /\ UNCHANGED <<rdb, now, reqs, served, text, built, phase, result>>

\* a minute passes
Tick ==
    /\ now < MaxClock
    /\ now' = now + 1
    /\ UNCHANGED <<rdb, reqs, served, last, proc, text, built, phase, result>>

Next ==
    \/ \E pingFail \in BOOLEAN, runFail \in BOOLEAN : main(pingFail, runFail)
    \/ \E m \in Messages, fail \in BOOLEAN : receiveSMS(m[1], m[2], m[3], fail)
    \/ \E q \in BagToSet(reqs), fail \in BOOLEAN : receiveSetLatest(q, fail)
    \/ \E phone \in Senders, fail \in BOOLEAN : getLatestSMS(phone, fail)
    \/ \E phone \in Senders, fail \in BOOLEAN : querySMS(phone, fail)
    \/ Tick

Spec == Init /\ [][Next]_vars

\* ========================================== properties of the cache store
ReadKinds == {"latest", "query"}

NoEntry == [val |-> <<>>, exp |-> -1]

EntryOf(db, key) == IF key \in DOMAIN db THEN db[key] ELSE NoEntry

\* the key is present and has not expired
Live(db, clock, key) == key \in DOMAIN db /\ clock < db[key].exp

\* this step starts a receive_sms request
Started == served' = served + 1

\* the request started by this step: answered at once, or now in progress
StartedRequest ==
    IF reqs' = reqs THEN last'
    ELSE CHOOSE q \in BagToSet(reqs') : CopiesIn(q, reqs') > CopiesIn(q, reqs)

\* this step is the latest SET and the answer of handler q
Answers(q) == BagIn(q, reqs) /\ reqs' = reqs (-) SetToBag({q})

\* this step is a lookup (by path parameter or by query body) of phone
Reads(phone) ==
    /\ last' # last
    /\ last'.kind \in ReadKinds
    /\ last'.from = phone

\* resp carries a record with the given sender, extract(content) and t
ReturnsRecord(resp, sender, content, t) ==
    /\ resp.status = 200
    /\ resp.data.from[2] = sender
    /\ resp.data.content[2] = CodeOf[content]
    /\ resp.data.received_at[2] = t

\* what latest(phone) answers in the state (db, clock) when the GET works
LatestNow(db, clock, phone) == LookupLatest(db, clock, phone, FALSE)

\* C1 (as claimed): after a record(sender, content, t) that returns success,
\* an immediately following latest(sender) returns the record with code
\* extract(content), the sender and t.
C1_RoundTrip ==
    [][ \A q \in BagToSet(reqs) :
          (Answers(q) /\ last'.resp.status = 200) =>
              ReturnsRecord(LatestNow(rdb', now', q.from), q.from, q.content, q.at)
      ]_vars

\* C1 (amended): after a record(sender, content, t) that returns success and
\* whose latest SET succeeded, an immediately following latest(sender) whose
\* GET does not fail (no other write, no expiry in between) returns the
\* record with code extract(content), the sender and t.
C1_RoundTripAfterLatestWrite ==
    [][ /\ \A q \in BagToSet(reqs) :
             (Answers(q) /\ last'.resp.status = 200 /\ last'.storeErr = "none") =>
                 ReturnsRecord(LatestNow(rdb', now', q.from), q.from, q.content, q.at)
        /\ ( /\ last.kind = "receive"
             /\ last.resp.status = 200
             /\ last.storeErr = "none"
             /\ Reads(last.from)
             /\ last'.storeErr = "none"
             /\ Live(rdb, now, KeyLatest(last.from)) )
           => ReturnsRecord(last'.resp, last.from, last.content, last.at)
      ]_vars

\* one record call completed and a lookup answered its record
C1_Witness ==
    /\ served = 1
    /\ reqs = EmptyBag
    /\ last.kind \in ReadKinds
    /\ last.resp.status = 200
    /\ last.resp.data.content[2] = CodeOf[ContentAnchored]
    /\ last.resp.data.received_at[2] = 2
    /\ Live(rdb, now, KeyHistoric(last.from, 2))

\* C2 (as claimed): when latest_sms:S holds the record of an earlier
\* successful record call and another record call for S returns success,
\* a following latest(S) returns the record of the second call, whatever
\* the two received_at values.
C2_LastWriteWins ==
    [][ \A q \in BagToSet(reqs) :
          ( /\ Answers(q)
            /\ last'.resp.status = 200
            /\ Live(rdb, now, KeyLatest(q.from))
            /\ rdb[KeyLatest(q.from)].val # Marshal(SMS(q.from, q.code, q.at)) )
          => /\ ReturnsRecord(LatestNow(rdb', now', q.from), q.from, q.content, q.at)
             /\ LatestNow(rdb', now', q.from) # LatestNow(rdb, now, q.from)
      ]_vars

\* C2 (amended): the same, when the latest SET of the second call succeeded.
C2_LastSuccessfulWriteWins ==
    [][ \A q \in BagToSet(reqs) :
          ( /\ Answers(q)
            /\ last'.resp.status = 200
            /\ last'.storeErr = "none"
            /\ Live(rdb, now, KeyLatest(q.from))
            /\ rdb[KeyLatest(q.from)].val # Marshal(SMS(q.from, q.code, q.at)) )
          => /\ ReturnsRecord(LatestNow(rdb', now', q.from), q.from, q.content, q.at)
             /\ LatestNow(rdb', now', q.from) # LatestNow(rdb, now, q.from)
      ]_vars

\* a record with received_at 2 was written a minute before a record with
\* received_at 1 of the same sender, and a lookup answered the later-written
C2_Witness ==
    /\ served = 2
    /\ reqs = EmptyBag
    /\ last.kind \in ReadKinds
    /\ last.resp.status = 200
    /\ last.resp.data.received_at[2] = 1
    /\ KeyHistoric(last.from, 2) \in DOMAIN rdb
    /\ KeyHistoric(last.from, 1) \in DOMAIN rdb
    /\ rdb[KeyHistoric(last.from, 2)].exp < rdb[KeyHistoric(last.from, 1)].exp
    /\ rdb[KeyHistoric(last.from, 2)].val.content # rdb[KeyHistoric(last.from, 1)].val.content

\* C3: when the historic SET fails, the request is answered with the
\* store-write error, no handler goes on to the latest SET, and the latest
\* key of the sender keeps its value and its expiry.
C3_HistoricFailureStops ==
    [][ (Started /\ StartedRequest.storeErr = "historic") =>
          /\ reqs' = reqs
          /\ last'.resp = Response(500, "StoreWriteFailed", <<>>)
          /\ EntryOf(rdb', KeyLatest(last'.from)) = EntryOf(rdb, KeyLatest(last'.from))
      ]_vars

\* a historic SET failed while the sender had a live latest record
C3_Witness ==
    /\ last.kind = "receive"
    /\ last.storeErr = "historic"
    /\ last.resp.status = 500
    /\ Live(rdb, now, KeyLatest(last.from))
    /\ rdb[KeyLatest(last.from)].val.received_at[2] # last.at
    /\ KeyHistoric(last.from, last.at) \notin DOMAIN rdb

\* C4: when the bound content holds no code, the request is answered with
\* NoCodeFound and no key of the store changes.
C4_NoCodeNoWrite ==
    [][ ( /\ Started
          /\ BindSMS(StartedRequest.from, StartedRequest.content, StartedRequest.at)
          /\ CodeOf[StartedRequest.content] = <<>> )
        => /\ reqs' = reqs
           /\ last'.resp = Response(400, "NoCodeFound", <<>>)
           /\ rdb' = rdb
      ]_vars

\* a message without a code was refused while the store held records
C4_Witness ==
    /\ last.kind = "receive"
    /\ last.content = ContentNoCode
    /\ last.resp.error = "NoCodeFound"
    /\ Live(rdb, now, KeyLatest(last.from))
    /\ KeyHistoric(last.from, last.at) \notin DOMAIN rdb

\* C5: a successful historic SET leaves the new record under the historic
\* key; when the latest SET then fails the request is still answered with
\* success, the historic key and the normalized fields, and the store is
\* left as the historic SET made it.
C5_LatestFailureStillSuccess ==
    [][ /\ (Started /\ reqs' # reqs) =>
              LET q == StartedRequest IN
              /\ Live(rdb', now', KeyHistoric(q.from, q.at))
              /\ rdb'[KeyHistoric(q.from, q.at)].val =
                     Marshal(SMS(q.from, CodeOf[q.content], q.at))
        /\ \A q \in BagToSet(reqs) :
              (Answers(q) /\ last'.storeErr = "latest") =>
                  /\ last'.resp.status = 200
                  /\ last'.resp.data.cache_key = KeyHistoric(q.from, q.at)
                  /\ last'.resp.data.from[2] = q.from
                  /\ last'.resp.data.timestamp[2] = q.at
                  /\ last'.resp.data.code[2] = CodeOf[q.content]
                  /\ rdb' = rdb
      ]_vars

\* a request was answered with success although its latest SET failed
C5_Witness ==
    /\ last.kind = "receive"
    /\ last.storeErr = "latest"
    /\ last.resp.status = 200
    /\ Live(rdb, now, KeyHistoric(last.from, last.at))
    /\ rdb[KeyHistoric(last.from, last.at)].val.content[2] = CodeOf[last.content]
    /\ KeyLatest(last.from) \notin DOMAIN rdb

\* C6: both keys are written with the expiry now + TTL, and a lookup of a
\* latest key whose TTL has elapsed since it was last written answers
\* NotFound.
C6_ExpiryAfterTTL ==
    [][ /\ (Started /\ reqs' # reqs) =>
              rdb'[KeyHistoric(StartedRequest.from, StartedRequest.at)].exp = now + TTL
        /\ \A q \in BagToSet(reqs) :
              (Answers(q) /\ last'.storeErr = "none") =>
                  rdb'[KeyLatest(q.from)].exp = now + TTL
        /\ \A k \in DOMAIN rdb' : rdb'[k].exp <= now' + TTL
        /\ \A S \in Senders :
              ( /\ Reads(S)
                /\ last'.storeErr = "none"
                /\ KeyLatest(S) \in DOMAIN rdb
                /\ now >= rdb[KeyLatest(S)].exp )
              => last'.resp = Response(404, "NotFound", <<>>)
      ]_vars

\* a lookup answered NotFound for a sender whose two keys have expired
C6_Witness ==
    /\ last.kind \in ReadKinds
    /\ last.resp.error = "NotFound"
    /\ KeyLatest(last.from) \in DOMAIN rdb
    /\ now = rdb[KeyLatest(last.from)].exp
    /\ \E t \in Times :
          /\ KeyHistoric(last.from, t) \in DOMAIN rdb
          /\ rdb[KeyHistoric(last.from, t)].exp = rdb[KeyLatest(last.from)].exp

\* C7: a lookup answers NotFound exactly when the GET reports the key
\* absent (never written, or expired), and a store-read failure exactly
\* when the GET fails otherwise.
C7_NotFoundDistinctFromFailure ==
    [][ \A S \in Senders :
          Reads(S) =>
              /\ (last'.resp.error = "NotFound") <=>
                     (last'.storeErr = "none" /\ ~Live(rdb, now, KeyLatest(S)))
              /\ (last'.resp.error = "StoreReadFailed") <=> (last'.storeErr = "read")
              /\ (last'.resp.status = 404) <=> (last'.resp.error = "NotFound")
      ]_vars

\* a GET failed for a sender without a latest key, answered as a failure
C7_Witness ==
    /\ last.kind \in ReadKinds
    /\ last.storeErr = "read"
    /\ last.resp.status = 500
    /\ last.resp.error = "StoreReadFailed"
    /\ KeyLatest(last.from) \notin DOMAIN rdb

\* the keys of the store by their prefix
HistoricKeys(db) == {k \in DOMAIN db : k[1] = "sms"}
LatestKeys(db)   == {k \in DOMAIN db : k[1] = "latest_sms"}

\* the payload a request with this input stores
PayloadOf(from, content, at) == Marshal(SMS(from, CodeOf[content], at))

\* no key appears and no key changes its value
SameValues(db1, db2) ==
    /\ DOMAIN db1 = DOMAIN db2
    /\ \A k \in DOMAIN db1 : db1[k].val = db2[k].val

\* C11: a record call whose payload is already held under a historic key
\* (the call before it was identical) leaves the store with the same keys
\* and the same values after its historic SET; and its latest SET leaves
\* the same keys and values when the latest key already holds that payload.
C11_Idempotent ==
    [][ /\ (Started /\ reqs' # reqs) =>
              LET q == StartedRequest IN
              (\E k \in HistoricKeys(rdb) :
                    rdb[k].val = PayloadOf(q.from, q.content, q.at))
              => SameValues(rdb', rdb)
        /\ \A q \in BagToSet(reqs) :
              ( /\ Answers(q)
                /\ \E k \in LatestKeys(rdb) :
                      rdb[k].val = PayloadOf(q.from, q.content, q.at) )
              => SameValues(rdb', rdb)
      ]_vars

\* the first of two identical calls has completed, the second has made its
\* historic SET a minute later: one historic key, one latest key, one value
C11_Witness ==
    /\ served = 2
    /\ \E q \in BagToSet(reqs) :
          /\ Cardinality(HistoricKeys(rdb)) = 1
          /\ Cardinality(LatestKeys(rdb)) = 1
          /\ \A k \in DOMAIN rdb : rdb[k].val = PayloadOf(q.from, q.content, q.at)
          /\ \E h \in HistoricKeys(rdb), l \in LatestKeys(rdb) : rdb[h].exp > rdb[l].exp

\* a sequence of 4 to 8 digits
IsCode(c) == Len(c) >= 4 /\ Len(c) <= 8 /\ \A p \in 1..Len(c) : c[p] \in Digits

\* C12: every record in the store, under a historic or a latest key, has
\* a code of 4 to 8 digits, and no record holds the text of a message.
C12_StoredCodesAreDigits ==
    \A k \in DOMAIN rdb :
        /\ IsCode(rdb[k].val.content[2])
        /\ rdb[k].val.content[2] \notin Contents

\* the message with the anchor phrase is stored as its four digits
C12_Witness ==
    /\ \E k \in HistoricKeys(rdb) : rdb[k].val.content[2] = <<"1", "1", "1", "1">>
    /\ \E k \in LatestKeys(rdb) : rdb[k].val.content[2] = <<"1", "1", "1", "1">>
    /\ last.kind = "receive"
    /\ last.content = ContentAnchored
    /\ last.resp.status = 200

\* C13: the payload in the cache and the record answered by the lookups
\* have from and content as strings and received_at as a JSON integer.
C13_ReceivedAtIsInteger ==
    /\ \A k \in DOMAIN rdb :
          /\ rdb[k].val.from[1] = "string"
          /\ rdb[k].val.content[1] = "string"
          /\ rdb[k].val.received_at[1] = "number"
    /\ (last.kind \in ReadKinds /\ last.resp.status = 200) =>
          /\ last.resp.data.from[1] = "string"
          /\ last.resp.data.content[1] = "string"
          /\ last.resp.data.received_at[1] = "number"

CorruptStore(phone) ==
    [k \in {KeyLatest(phone)} |->
        [val |-> MarshalPlainInt(SMS(phone, <<"1", "1", "1", "1">>, 1)),
         exp |-> TTL]]

C15_LastLatestWriteWins ==
    [][ /\ \A q \in BagToSet(reqs) :
              (Answers(q) /\ last'.storeErr = "none") =>
                  EntryOf(rdb', KeyLatest(q.from))
                      = [val |-> Marshal(SMS(q.from, q.code, q.at)),
                         exp |-> now + TTL]
        /\ \A S \in Senders :
              EntryOf(rdb', KeyLatest(S)) # EntryOf(rdb, KeyLatest(S)) =>
                  \E q \in BagToSet(reqs) :
                      Answers(q) /\ q.from = S /\ last'.storeErr = "none"
      ]_vars

\* two requests of one sender were in progress together; the one with the
\* smaller received_at made its historic SET first and its latest SET
\* last, a minute after the other's, and the latest key holds its record
C15_Witness ==
    /\ served = 2
    /\ reqs = EmptyBag
    /\ last.kind = "receive"
    /\ last.resp.status = 200
    /\ last.storeErr = "none"
    /\ last.at = 1
    /\ LET S == last.from IN
       /\ {KeyHistoric(S, 1), KeyHistoric(S, 2), KeyLatest(S)} \subseteq DOMAIN rdb
       /\ rdb[KeyHistoric(S, 1)].exp < rdb[KeyHistoric(S, 2)].exp
       /\ rdb[KeyHistoric(S, 2)].exp < rdb[KeyLatest(S)].exp
       /\ rdb[KeyLatest(S)].val = Marshal(SMS(S, last.code, 1))

\* C17: the record under latest_sms:S changes only in the latest SET of
\* a request of S whose historic SET succeeded, and becomes that request's
\* record; the historic key of the record under latest_sms:S was written.
C17_LatestAfterHistoric ==
    [][ /\ \A S \in Senders :
              EntryOf(rdb', KeyLatest(S)) # EntryOf(rdb, KeyLatest(S)) =>
                  \E q \in BagToSet(reqs) :
                      /\ Answers(q)
                      /\ q.from = S
                      /\ q.storeErr = "none"
                      /\ rdb'[KeyLatest(S)].val = Marshal(SMS(S, q.code, q.at))
        /\ \A k \in LatestKeys(rdb') :
              LET r == rdb'[k].val IN
              KeyHistoric(r.from[2], r.received_at[2]) \in DOMAIN rdb'
      ]_vars

\* a request whose historic SET failed was answered 500, and the latest
\* key of its sender still holds the record of the request before it
C17_Witness ==
    /\ last.kind = "receive"
    /\ last.storeErr = "historic"
    /\ last.resp.status = 500
    /\ KeyLatest(last.from) \in DOMAIN rdb
    /\ rdb[KeyLatest(last.from)].val # Marshal(SMS(last.from, last.code, last.at))
    /\ KeyHistoric(last.from, last.at) \notin DOMAIN rdb

\* C18: when no request is in progress and neither key has expired, the
\* record under latest_sms:S and the record under the historic key of
\* its received_at are the same record.
C18_HistoricAgreesWithLatest ==
    reqs = EmptyBag =>
        \A k \in LatestKeys(rdb) :
            LET r == rdb[k].val
                h == KeyHistoric(r.from[2], r.received_at[2])
            IN  (Live(rdb, now, k) /\ Live(rdb, now, h)) => rdb[h].val = r

\* this step changes the entry (value or expiry) under key k
Changes(k) == EntryOf(rdb', k) # EntryOf(rdb, k)

\* C19: a record request of sender S changes at most sms:S:{received_at}
\* (in its historic SET) and latest_sms:S (in its latest SET), and no key
\* of another sender; a step that is not a SET of a record request, the
\* two lookups among them, changes no key's value or expiry.
C19_SenderIsolation ==
    [][ /\ Started =>
              \A k \in DOMAIN rdb \cup DOMAIN rdb' :
                  Changes(k) =>
                      k = <<"sms", StartedRequest.from, StartedRequest.at>>
        /\ \A q \in BagToSet(reqs) :
              Answers(q) =>
                  \A k \in DOMAIN rdb \cup DOMAIN rdb' :
                      Changes(k) => k = <<"latest_sms", q.from>>
        /\ (served' = served /\ reqs' = reqs) => rdb' = rdb
        /\ \A S \in Senders : Reads(S) => rdb' = rdb
      ]_vars

\* a record request of B has written its two keys beside the two keys of
\* A, and a lookup of A then answered A's record
C19_Witness ==
    /\ served = 2
    /\ reqs = EmptyBag
    /\ last.kind \in ReadKinds
    /\ last.from = "A"
    /\ last.resp.status = 200
    /\ last.resp.data = rdb[KeyLatest("A")].val
    /\ KeyLatest("B") \in DOMAIN rdb
    /\ rdb[KeyLatest("B")].exp > rdb[KeyLatest("A")].exp
    /\ Cardinality(HistoricKeys(rdb)) = 2

\* ============================================= properties of extractCode
\* a maximal contiguous digit run starts at i
RunStartAt(t, i) ==
    /\ i \in 1..Len(t)
    /\ IsDigit(t[i])
    /\ (i = 1 \/ ~IsDigit(t[i - 1]))

\* length of the maximal digit run starting at i
RunLen(t, i) == Max({k \in 0..(Len(t) - i + 1) : AllDigits(t, i, i + k - 1)})

RunStarts(t) == {i \in 1..Len(t) : RunStartAt(t, i)}

\* starts of the maximal runs whose length is in [4,8]
CodeRunStarts(t) ==
    {i \in RunStarts(t) : RunLen(t, i) >= MinLen /\ RunLen(t, i) <= MaxLen}

RunAt(t, i) == SubSeq(t, i, i + RunLen(t, i) - 1)

AnchorStarts(t) == {i \in 1..Len(t) : AnchorAt(t, i)}

\* the anchor at i is immediately followed by a maximal run of 4..8 digits
AnchorThenCode(t, i) ==
    /\ AnchorAt(t, i)
    /\ (i + Len(Anchor)) \in CodeRunStarts(t)

\* C8: a text whose maximal digit runs all have length below 4 or above 8
\* yields "not found"; a run longer than 8 digits never yields a code.
C8_OutOfRangeRunsNotFound ==
    (phase = "done" /\ CodeRunStarts(text) = {}) => result = <<>>

\* C9 (as claimed): for every occurrence of the anchor phrase immediately
\* followed by a run of exactly N digits, 4 <= N <= 8, extractCode returns
\* that run, whatever other digit runs the text has.
C9_AnyAnchoredRunReturned ==
    phase = "done" =>
        \A i \in AnchorStarts(text) :
            AnchorThenCode(text, i) => result = RunAt(text, i + Len(Anchor))

\* C9 (amended): when the FIRST occurrence of the anchor phrase is
\* immediately followed by a run of exactly N digits, 4 <= N <= 8,
\* extractCode returns that run, whatever other digit runs the text has.
C9_FirstAnchoredRunReturned ==
    (phase = "done" /\ AnchorStarts(text) # {}) =>
        LET i == Min(AnchorStarts(text)) IN
        AnchorThenCode(text, i) => result = RunAt(text, i + Len(Anchor))

\* the first anchor is followed by its code and a different 4..8 digit run
\* stands later in the text; the anchored run is the result
C9_Witness ==
    /\ phase = "done"
    /\ AnchorStarts(text) # {}
    /\ LET i == Min(AnchorStarts(text)) IN
       /\ AnchorThenCode(text, i)
       /\ \E j \in CodeRunStarts(text) :
             /\ j > i + Len(Anchor)
             /\ RunAt(text, j) # RunAt(text, i + Len(Anchor))
       /\ result = RunAt(text, i + Len(Anchor))

\* C10: with no anchor phrase and one or more digit runs of length in
\* [4,8], extractCode returns the last such run in reading order.
C10_LastCodeRunReturned ==
    (phase = "done" /\ AnchorStarts(text) = {} /\ CodeRunStarts(text) # {}) =>
        result = RunAt(text, Max(CodeRunStarts(text)))

\* C16: when the anchor phrase is in the text and only non-digits (or
\* nothing) come after it, extractCode returns the last run of 4 to 8
\* digits of the whole text if there is one, and "not found" only when
\* there is none.
C16_AnchorWithoutDigitsFallsThrough ==
    ( /\ phase = "done"
      /\ AnchorStarts(text) # {}
      /\ AllNonDigits(text, Min(AnchorStarts(text)), Len(text)) ) =>
        /\ CodeRunStarts(text) # {} =>
              result = RunAt(text, Max(CodeRunStarts(text)))
        /\ result = <<>> => CodeRunStarts(text) = {}

====
